---- MODULE Spec2Model ----
(***************************************************************************)
(* Model of bot.py: the /attribute-speakers slash command handler that     *)
(* parses a "speaker:name,..." string, POSTs it to an n8n waiting webhook  *)
(* and reports the outcome through the Discord interaction.                *)
(*                                                                         *)
(* Strings are sequences of one-character strings, so that str.split,      *)
(* str.strip and str.rstrip are computed as Python computes them.  User    *)
(* facing messages are sequences of tokens (literal pieces and the         *)
(* characters of the interpolated values).                                 *)
(***************************************************************************)
EXTENDS Integers, Sequences, FiniteSets, TLC

VARIABLES
    pc,                     \* position of the handler in attribute_speakers
    N8N_WEBHOOK_BASE_URL,   \* module-level configuration (bot.py:16)
    execution_id,           \* handler argument
    metadata,               \* handler argument (characters)
    transcription_id,       \* handler argument
    speaker_map,            \* dict built by the parsing loop
    webhook_url,            \* bot.py:74
    payload,                \* bot.py:78-81
    response,               \* <<>> (no response yet) or <<status_code>>
    exc,                    \* the exception being handled, or NoExc
    send_message_calls,     \* interaction.response.send_message(...) calls
    defer_calls,            \* interaction.response.defer(...) calls
    post_calls,             \* requests.post(...) calls
    followup_calls,         \* interaction.followup.send(...) calls
    trace                   \* the calls above in program order, with outcome

vars == <<pc, N8N_WEBHOOK_BASE_URL, execution_id, metadata, transcription_id,
          speaker_map, webhook_url, payload, response, exc,
          send_message_calls, defer_calls, post_calls, followup_calls, trace>>

----------------------------------------------------------------------------
(* Bounds and input domains *)

MaxLen == 5

Chars == {"a", "b", " ", ":", ","}

Whitespace == {" "}

RECURSIVE StringsUpTo(_)
StringsUpTo(n) ==
    IF n = 0 THEN {<<>>}
    ELSE LET shorter == StringsUpTo(n - 1)
         IN  shorter \cup {Append(s, c) : s \in {t \in shorter : Len(t) = n - 1}, c \in Chars}

MetadataStrings == StringsUpTo(MaxLen)

ExecutionIds == {<<"e", "1">>, <<"e", "2">>}

TranscriptionIds == {<<"t", "1">>, <<"t", "2">>}

BaseUrls == {<<"h">>, <<"h", "/">>, <<"h", "/", "/">>}

StatusCodes == {200, 302, 400, 404, 405, 500}

----------------------------------------------------------------------------
(* Python string primitives *)

\* s[i:] for a 1-based i
Tail_(s, i) == SubSeq(s, i, Len(s))

\* index of the first occurrence of c in s, 0 when absent
RECURSIVE Find(_, _, _)
Find(s, c, i) ==
    IF i > Len(s) THEN 0
    ELSE IF s[i] = c THEN i
    ELSE Find(s, c, i + 1)

\* str.split(c): always at least one (possibly empty) part
RECURSIVE split(_, _)
split(s, c) ==
    LET i == Find(s, c, 1)
    IN  IF i = 0 THEN <<s>>
        ELSE <<SubSeq(s, 1, i - 1)>> \o split(Tail_(s, i + 1), c)

\* str.lstrip()
RECURSIVE lstrip(_)
lstrip(s) ==
    IF s # <<>> /\ Head(s) \in Whitespace THEN lstrip(Tail(s)) ELSE s

\* str.rstrip() / str.rstrip(chars)
RECURSIVE rstrip(_, _)
rstrip(s, chars) ==
    IF s # <<>> /\ s[Len(s)] \in chars THEN rstrip(SubSeq(s, 1, Len(s) - 1), chars) ELSE s

\* str.strip()
strip(s) == rstrip(lstrip(s), Whitespace)

\* str(int) for a non-negative int
Digits == <<"0", "1", "2", "3", "4", "5", "6", "7", "8", "9">>

RECURSIVE str(_)
str(n) ==
    IF n < 10 THEN <<Digits[n + 1]>>
    ELSE str(n \div 10) \o <<Digits[(n % 10) + 1]>>

\* d[k] = v on a dict
SetItem(d, k, v) == [x \in DOMAIN d \cup {k} |-> IF x = k THEN v ELSE d[x]]

EmptyDict == [x \in {} |-> <<>>]

----------------------------------------------------------------------------
(* The parsing loop, bot.py:63-68 *)

\* Variant: the first two parts are taken and further parts are ignored.
Unpacks_AtLeastTwo(pair) == Len(split(strip(pair), ":")) >= 2

\* speaker_id, speaker_name = pair.strip().split(':') unpacks only a list of
\* exactly two parts; any other length raises ValueError.
Unpacks(pair) == Len(split(strip(pair), ":")) = 2

\* for pair in pairs: ... speaker_map[speaker_id] = speaker_name
\* The result records whether ValueError was raised and the dict so far.
RECURSIVE ParsePairs(_, _)
ParsePairs(pairs, d) ==
    IF pairs = <<>> THEN [ok |-> TRUE, map |-> d]
    ELSE IF ~Unpacks(Head(pairs)) THEN [ok |-> FALSE, map |-> d]
    ELSE LET parts == split(strip(Head(pairs)), ":")
         IN  ParsePairs(Tail(pairs), SetItem(d, parts[1], parts[2]))

ParseMetadataString(m) == ParsePairs(split(m, ","), EmptyDict)

----------------------------------------------------------------------------
(* Messages.  The source's leading emoji are written as the ASCII markers  *)
(* "[x] " and "[ok] ", and the backtick as the token BACKTICK.              *)

BACKTICK == "<backtick>"

InvalidFormatMessage ==
    <<"[x] Invalid metadata format. Please use format 'speaker_00:name,speaker_01:name'">>

SuccessMessage(eid) ==
    <<"[ok] Successfully sent metadata for execution ", BACKTICK>> \o eid \o <<BACKTICK, " to the workflow!">>

FailureLine(eid) ==
    <<"[x] Failed to send metadata to the workflow for execution ", BACKTICK>> \o eid \o <<BACKTICK, ".">>

DetailsLine(status) ==
    <<"\n_Details: Received status ">> \o str(status) \o <<" from n8n._">>

NotFoundHint ==
    <<"\n_(This often means the execution ID is incorrect or the workflow is no longer waiting.)_">>

ConnectHint == <<"\n_(Could not connect to the n8n instance.)_">>

UnexpectedMessage == <<"[x] An unexpected error occurred. Please check the bot logs.">>

NOT_FOUND == 404

TIMEOUT == 10

\* Variant: the waiting-workflow hint is appended from status 404 upwards.
ErrorMessage_HintFrom404(eid, e) ==
    IF e.response # <<>>
    THEN FailureLine(eid) \o DetailsLine(e.response[1])
         \o (IF e.response[1] >= NOT_FOUND THEN NotFoundHint ELSE <<>>)
    ELSE FailureLine(eid) \o ConnectHint

\* Variant: a timeout is reported without the connection hint.
ErrorMessage_TimeoutNoHint(eid, e) ==
    IF e.response # <<>>
    THEN FailureLine(eid) \o DetailsLine(e.response[1])
         \o (IF e.response[1] = NOT_FOUND THEN NotFoundHint ELSE <<>>)
    ELSE IF e.kind = "Timeout" THEN FailureLine(eid)
    ELSE FailureLine(eid) \o ConnectHint

\* error_message as built in the RequestException handler, bot.py:96-104
ErrorMessage(eid, e) ==
    IF e.response # <<>>
    THEN FailureLine(eid) \o DetailsLine(e.response[1])
         \o (IF e.response[1] = NOT_FOUND THEN NotFoundHint ELSE <<>>)
    ELSE FailureLine(eid) \o ConnectHint

\* Variant: the base URL is used as configured.
WebhookUrl_NoRstrip(base, eid) == base \o <<"/webhook-waiting/">> \o eid

\* bot.py:74: the base URL without trailing slashes, the fixed path, the id
WebhookUrl(base, eid) == rstrip(base, {"/"}) \o <<"/webhook-waiting/">> \o eid

\* Response.raise_for_status() raises HTTPError for 4xx and 5xx
IsErrorStatus(status) == status >= 400 /\ status < 600

----------------------------------------------------------------------------
(* State *)

NoExc == [kind |-> "none", response |-> <<>>]

Init ==
    /\ pc = "idle"
    /\ N8N_WEBHOOK_BASE_URL \in BaseUrls
    /\ execution_id = <<>>
    /\ metadata = <<>>
    /\ transcription_id = <<>>
    /\ speaker_map = EmptyDict
    /\ webhook_url = <<>>
    /\ payload = [metadata |-> EmptyDict, transcription_id |-> <<>>]
    /\ response = <<>>
    /\ exc = NoExc
    /\ send_message_calls = <<>>
    /\ defer_calls = <<>>
    /\ post_calls = <<>>
    /\ followup_calls = <<>>
    /\ trace = <<>>

Event(call, outcome) == [call |-> call, outcome |-> outcome]

\* The dispatcher calls the handler with three strings.
Invoke ==
    /\ pc = "idle"
    /\ execution_id' \in ExecutionIds
    /\ metadata' \in MetadataStrings
    /\ transcription_id' \in TranscriptionIds
    /\ pc' = "parse"
    /\ UNCHANGED <<N8N_WEBHOOK_BASE_URL, speaker_map, webhook_url, payload, response,
                   exc, send_message_calls, defer_calls, post_calls, followup_calls,
                   trace>>

\* bot.py:63-70: the try block around the parsing loop
ParseMetadata ==
    /\ pc = "parse"
    /\ LET r == ParseMetadataString(metadata)
       IN  /\ speaker_map' = r.map
           /\ pc' = IF r.ok THEN "build" ELSE "except_ValueError"
    /\ UNCHANGED <<N8N_WEBHOOK_BASE_URL, execution_id, metadata, transcription_id,
                   webhook_url, payload, response, exc, send_message_calls,
                   defer_calls, post_calls, followup_calls, trace>>

\* bot.py:71-72: await interaction.response.send_message(...); return
\* The await either completes or raises out of the except clause.
SendInvalidFormat ==
    /\ pc = "except_ValueError"
    /\ send_message_calls' =
           Append(send_message_calls, [message |-> InvalidFormatMessage, ephemeral |-> TRUE])
    /\ \E outcome \in {"ok", "Exception"} :
           /\ trace' = Append(trace, Event("send_message", outcome))
           /\ pc' = IF outcome = "ok" THEN "returned" ELSE "raised"
    /\ UNCHANGED <<N8N_WEBHOOK_BASE_URL, execution_id, metadata, transcription_id,
                   speaker_map, webhook_url, payload, response, exc, defer_calls,
                   post_calls, followup_calls>>

\* Variant: the request is sent without acknowledging the interaction first.
BuildRequest_SkipDefer ==
    /\ pc = "build"
    /\ webhook_url' = WebhookUrl(N8N_WEBHOOK_BASE_URL, execution_id)
    /\ payload' = [metadata |-> speaker_map, transcription_id |-> transcription_id]
    /\ pc' = "post"
    /\ UNCHANGED <<N8N_WEBHOOK_BASE_URL, execution_id, metadata, transcription_id,
                   speaker_map, response, exc, send_message_calls, defer_calls,
                   post_calls, followup_calls, trace>>

\* bot.py:74-81
BuildRequest ==
    /\ pc = "build"
    /\ webhook_url' = WebhookUrl(N8N_WEBHOOK_BASE_URL, execution_id)
    /\ payload' = [metadata |-> speaker_map, transcription_id |-> transcription_id]
    /\ pc' = "defer"
    /\ UNCHANGED <<N8N_WEBHOOK_BASE_URL, execution_id, metadata, transcription_id,
                   speaker_map, response, exc, send_message_calls, defer_calls,
                   post_calls, followup_calls, trace>>

\* bot.py:86: await interaction.response.defer(ephemeral=True), inside the try
Defer ==
    /\ pc = "defer"
    /\ defer_calls' = Append(defer_calls, [ephemeral |-> TRUE])
    /\ \E outcome \in {"ok", "Exception"} :
           /\ trace' = Append(trace, Event("defer", outcome))
           /\ IF outcome = "ok"
              THEN pc' = "post" /\ exc' = exc
              ELSE pc' = "except_Exception" /\ exc' = [kind |-> "Exception", response |-> <<>>]
    /\ UNCHANGED <<N8N_WEBHOOK_BASE_URL, execution_id, metadata, transcription_id,
                   speaker_map, webhook_url, payload, response, send_message_calls,
                   post_calls, followup_calls>>

\* bot.py:89: response = requests.post(webhook_url, json=payload, timeout=10)
\* It returns a response, raises a RequestException that carries no response
\* (connection failure, timeout), or raises something else.
Post ==
    /\ pc = "post"
    /\ post_calls' =
           Append(post_calls, [url |-> webhook_url, json |-> payload, timeout |-> TIMEOUT])
    /\ \/ \E status \in StatusCodes :
              /\ response' = <<status>>
              /\ exc' = exc
              /\ trace' = Append(trace, Event("post", "response"))
              /\ pc' = "raise_for_status"
       \/ \E kind \in {"ConnectionError", "Timeout"} :
              /\ exc' = [kind |-> kind, response |-> <<>>]
              /\ response' = response
              /\ trace' = Append(trace, Event("post", kind))
              /\ pc' = "except_RequestException"
       \/ /\ exc' = [kind |-> "Exception", response |-> <<>>]
          /\ response' = response
          /\ trace' = Append(trace, Event("post", "Exception"))
          /\ pc' = "except_Exception"
    /\ UNCHANGED <<N8N_WEBHOOK_BASE_URL, execution_id, metadata, transcription_id,
                   speaker_map, webhook_url, payload, send_message_calls, defer_calls,
                   followup_calls>>

\* bot.py:90: response.raise_for_status()
RaiseForStatus ==
    /\ pc = "raise_for_status"
    /\ IF IsErrorStatus(response[1])
       THEN pc' = "except_RequestException" /\ exc' = [kind |-> "HTTPError", response |-> response]
       ELSE pc' = "send_success" /\ exc' = exc
    /\ UNCHANGED <<N8N_WEBHOOK_BASE_URL, execution_id, metadata, transcription_id,
                   speaker_map, webhook_url, payload, response, send_message_calls,
                   defer_calls, post_calls, followup_calls, trace>>

\* bot.py:93: await interaction.followup.send(success message), still inside the try
SendSuccess ==
    /\ pc = "send_success"
    /\ followup_calls' =
           Append(followup_calls, [message |-> SuccessMessage(execution_id), ephemeral |-> TRUE])
    /\ \E outcome \in {"ok", "Exception"} :
           /\ trace' = Append(trace, Event("followup", outcome))
           /\ IF outcome = "ok"
              THEN pc' = "returned" /\ exc' = exc
              ELSE pc' = "except_Exception" /\ exc' = [kind |-> "Exception", response |-> <<>>]
    /\ UNCHANGED <<N8N_WEBHOOK_BASE_URL, execution_id, metadata, transcription_id,
                   speaker_map, webhook_url, payload, response, send_message_calls,
                   defer_calls, post_calls>>

\* Variant: a failed request is retried once before it is reported.
HandleRequestException_Retry ==
    /\ pc = "except_RequestException"
    /\ IF Len(post_calls) < 2
       THEN /\ pc' = "post"
            /\ exc' = NoExc
            /\ UNCHANGED <<followup_calls, trace>>
       ELSE /\ followup_calls' =
                   Append(followup_calls, [message |-> ErrorMessage(execution_id, exc), ephemeral |-> TRUE])
            /\ \E outcome \in {"ok", "Exception"} :
                   /\ trace' = Append(trace, Event("followup", outcome))
                   /\ pc' = IF outcome = "ok" THEN "returned" ELSE "raised"
            /\ exc' = exc
    /\ UNCHANGED <<N8N_WEBHOOK_BASE_URL, execution_id, metadata, transcription_id,
                   speaker_map, webhook_url, payload, response, send_message_calls,
                   defer_calls, post_calls>>

\* bot.py:94-105: except requests.exceptions.RequestException as e
\* An exception raised by the await inside the handler leaves the function.
HandleRequestException ==
    /\ pc = "except_RequestException"
    /\ followup_calls' =
           Append(followup_calls, [message |-> ErrorMessage(execution_id, exc), ephemeral |-> TRUE])
    /\ \E outcome \in {"ok", "Exception"} :
           /\ trace' = Append(trace, Event("followup", outcome))
           /\ pc' = IF outcome = "ok" THEN "returned" ELSE "raised"
    /\ UNCHANGED <<N8N_WEBHOOK_BASE_URL, execution_id, metadata, transcription_id,
                   speaker_map, webhook_url, payload, response, exc, send_message_calls,
                   defer_calls, post_calls>>

\* bot.py:107-109: except Exception as e
HandleException ==
    /\ pc = "except_Exception"
    /\ followup_calls' =
           Append(followup_calls, [message |-> UnexpectedMessage, ephemeral |-> TRUE])
    /\ \E outcome \in {"ok", "Exception"} :
           /\ trace' = Append(trace, Event("followup", outcome))
           /\ pc' = IF outcome = "ok" THEN "returned" ELSE "raised"
    /\ UNCHANGED <<N8N_WEBHOOK_BASE_URL, execution_id, metadata, transcription_id,
                   speaker_map, webhook_url, payload, response, exc, send_message_calls,
                   defer_calls, post_calls>>

Next ==
    \/ Invoke
    \/ ParseMetadata
    \/ SendInvalidFormat
    \/ BuildRequest
    \/ Defer
    \/ Post
    \/ RaiseForStatus
    \/ SendSuccess
    \/ HandleRequestException
    \/ HandleException

Spec == Init /\ [][Next]_vars

Finished == pc \in {"returned", "raised"}

----------------------------------------------------------------------------
(* Vocabulary of the properties, stated on the raw metadata string without *)
(* the handler's split: a segment is a maximal comma-free run.             *)

Parsed == pc \notin {"idle", "parse"}

Boundaries(m) == {0} \cup {i \in 1..Len(m) : m[i] = ","} \cup {Len(m) + 1}

SegmentsOf(m) ==
    {pq \in Boundaries(m) \X Boundaries(m) :
        /\ pq[1] < pq[2]
        /\ \A r \in Boundaries(m) : ~(pq[1] < r /\ r < pq[2])}

Colons(m, pq) == {i \in (pq[1] + 1)..(pq[2] - 1) : m[i] = ":"}

HasBadSegment(m) == \E pq \in SegmentsOf(m) : Cardinality(Colons(m, pq)) # 1

TheColon(m, pq) == CHOOSE c \in Colons(m, pq) : TRUE

TrimmedKey(m, pq) == strip(SubSeq(m, pq[1] + 1, TheColon(m, pq) - 1))

TrimmedValue(m, pq) == strip(SubSeq(m, TheColon(m, pq) + 1, pq[2] - 1))

\* {k1: v1, k2: v2, ...} with every key and value trimmed; a repeated key
\* keeps its last value, as in a dict literal.
TrimmedMap(m) ==
    [k \in {TrimmedKey(m, pq) : pq \in SegmentsOf(m)} |->
        TrimmedValue(m, CHOOSE pq \in SegmentsOf(m) :
            /\ TrimmedKey(m, pq) = k
            /\ \A other \in SegmentsOf(m) :
                   TrimmedKey(m, other) = k => other[1] <= pq[1])]

Reply(message) == [message |-> message, ephemeral |-> TRUE]

EventsAt(call) == {i \in 1..Len(trace) : trace[i].call = call}

----------------------------------------------------------------------------
(* C1: when the handler has ended, exactly one terminal reply call was     *)
(* made: one send_message after a parse failure, one followup.send         *)
(* otherwise; never zero and never two.                                    *)
ExactlyOneTerminalReply ==
    Finished =>
        IF HasBadSegment(metadata)
        THEN Len(send_message_calls) = 1 /\ Len(followup_calls) = 0
        ELSE Len(send_message_calls) = 0 /\ Len(followup_calls) = 1

(* C2: for a well-formed metadata string the Speaker Map built by the      *)
(* handler is the map of its pairs with whitespace removed around every    *)
(* key and every value.                                                    *)
SpeakerMapIsTrimmed ==
    (Parsed /\ ~HasBadSegment(metadata)) =>
        /\ pc # "except_ValueError"
        /\ speaker_map = TrimmedMap(metadata)

(* C3: when some segment of metadata does not contain exactly one ':',     *)
(* the handler makes one ephemeral send_message call with the fixed        *)
(* invalid-format message and no defer, followup or POST call.             *)
InvalidFormatRepliesImmediately ==
    (Parsed /\ HasBadSegment(metadata)) =>
        /\ defer_calls = <<>>
        /\ followup_calls = <<>>
        /\ post_calls = <<>>
        /\ Finished => send_message_calls = <<Reply(InvalidFormatMessage)>>

InvalidFormatWitness ==
    /\ pc = "returned"
    /\ HasBadSegment(metadata)
    /\ Cardinality(SegmentsOf(metadata)) = 2
    /\ Len(send_message_calls) = 1

(* C4: no exception raised while handling an invocation leaves the         *)
(* handler.                                                                *)
NoExceptionPropagates == pc # "raised"

(* C5: an unexpected exception raised after the deferral yields exactly    *)
(* one followup.send call, carrying the generic message, and no other      *)
(* followup call.                                                          *)
UnexpectedErrorYieldsOneGenericFollowup ==
    (/\ Finished
     /\ \E i, j \in 1..Len(trace) :
            /\ i < j
            /\ trace[i] = Event("defer", "ok")
            /\ trace[j].outcome = "Exception")
    => followup_calls = <<Reply(UnexpectedMessage)>>

(* C6 as stated: the deferral is issued before the POST, and every         *)
(* followup comes after the deferral and after a completed POST.           *)
FollowupOnlyAfterDeferAndPost ==
    /\ \A p \in EventsAt("post") : \E d \in EventsAt("defer") : d < p
    /\ \A f \in EventsAt("followup") :
           /\ \E d \in EventsAt("defer") : d < f
           /\ \E p \in EventsAt("post") : p < f

(* C6 amended: the deferral is issued before the POST, and every followup  *)
(* comes after the deferral and, unless the deferral itself raised, after  *)
(* a completed POST.                                                       *)
FollowupOnlyAfterDeferAndPostUnlessDeferRaised ==
    /\ \A p \in EventsAt("post") : \E d \in EventsAt("defer") : d < p
    /\ \A f \in EventsAt("followup") :
           /\ \E d \in EventsAt("defer") : d < f
           /\ \/ \E p \in EventsAt("post") : p < f
              \/ \E d \in EventsAt("defer") : d < f /\ trace[d].outcome = "Exception"

FollowupOrderWitness ==
    /\ pc = "returned"
    /\ trace = <<Event("defer", "ok"), Event("post", "response"), Event("followup", "ok")>>

(* C7: an invocation makes at most one requests.post call, whatever the    *)
(* outcome of the first.                                                   *)
AtMostOnePost == Len(post_calls) <= 1

AtMostOnePostWitness ==
    /\ Finished
    /\ Len(post_calls) = 1
    /\ exc.kind \in {"ConnectionError", "Timeout", "HTTPError", "Exception"}

(* C8: after an HTTP error status the single followup is the failure line  *)
(* naming execution_id, then the details line with the status code, then   *)
(* the waiting-workflow hint exactly when the status is 404.               *)
HttpErrorMessage ==
    (Finished /\ response # <<>> /\ response[1] \in 400..599) =>
        /\ Len(followup_calls) = 1
        /\ followup_calls[1].ephemeral
        /\ LET msg == followup_calls[1].message
               head == FailureLine(execution_id) \o DetailsLine(response[1])
           IN  /\ Len(msg) >= Len(head)
               /\ SubSeq(msg, 1, Len(head)) = head
               /\ SubSeq(msg, Len(head) + 1, Len(msg)) =
                      (IF response[1] = 404 THEN NotFoundHint ELSE <<>>)

HttpErrorWitness ==
    /\ pc = "returned"
    /\ response = <<404>>
    /\ Len(followup_calls) = 1

(* C9: when the POST obtains no response (connection failure or timeout)   *)
(* the single followup is the failure line naming execution_id followed by *)
(* the could-not-connect hint, with no details line; a timeout gives the   *)
(* same message as a connection failure.                                   *)
NoResponseMessage ==
    (/\ Finished
     /\ \E p \in EventsAt("post") : trace[p].outcome \in {"ConnectionError", "Timeout"})
    => /\ followup_calls = <<Reply(FailureLine(execution_id) \o ConnectHint)>>
       /\ \A i \in 1..Len(followup_calls[1].message) :
              followup_calls[1].message[i] # "\n_Details: Received status "

NoResponseWitness ==
    /\ pc = "returned"
    /\ Len(trace) = 3
    /\ trace[2] = Event("post", "Timeout")
    /\ Len(followup_calls) = 1

(* C10: every POST goes to the base URL without its trailing slashes,      *)
(* then "/webhook-waiting/", then execution_id unchanged, and its JSON     *)
(* body has exactly the fields metadata (the parsed Speaker Map) and       *)
(* transcription_id (the argument verbatim).                               *)
PostTargetsWaitingWebhook ==
    \A i \in 1..Len(post_calls) :
        /\ \E n \in 0..Len(N8N_WEBHOOK_BASE_URL) :
               /\ n = 0 \/ N8N_WEBHOOK_BASE_URL[n] # "/"
               /\ \A j \in (n + 1)..Len(N8N_WEBHOOK_BASE_URL) : N8N_WEBHOOK_BASE_URL[j] = "/"
               /\ post_calls[i].url =
                      SubSeq(N8N_WEBHOOK_BASE_URL, 1, n) \o <<"/webhook-waiting/">> \o execution_id
        /\ DOMAIN post_calls[i].json = {"metadata", "transcription_id"}
        /\ post_calls[i].json.metadata = ParseMetadataString(metadata).map
        /\ post_calls[i].json.transcription_id = transcription_id

PostTargetWitness ==
    /\ Len(post_calls) = 1
    /\ N8N_WEBHOOK_BASE_URL = <<"h", "/", "/">>
    /\ Cardinality(DOMAIN post_calls[1].json.metadata) = 2

====
